---- MODULE Spec2Model ----
(***************************************************************************)
(* read4me (speak_selection.py): the hotkey -> debounce -> selection       *)
(* capture -> speech pipeline of Read4MeMenuApp, with the listener threads *)
(* of pynput, the OS clipboard, the foreground application and the `say`   *)
(* processes as the environment.                                           *)
(*                                                                         *)
(* Time is counted in ticks of 250 ms, and every timestamp is kept         *)
(* relative to the present instant: 0 is now, -k is k ticks ago.  Tick     *)
(* moves the present forward by shifting them all.  A time.sleep is a      *)
(* point at which the thread waits while the others run; how long it lasts *)
(* is not counted.  Texts are sequences of characters.                     *)
(***************************************************************************)
EXTENDS Integers, Sequences, FiniteSets, TLC

\* ---- bounds of the model ----
MaxListeners == 2     \* listener threads that exist at the same time
MaxBusy == 1          \* hotkey callbacks running at the same time where
                      \* the listeners Deliver (SpecCycles has no such bound)
MaxThreads == 2       \* threads in all: listeners, and callers of the classes
MaxProcs == 2         \* `say` processes that are alive at the same time
MaxStall == 1         \* ticks a thread may take from sampling the clock in
                      \* ok() to leaving ok()

\* ---- program constants, in ticks of 250 ms ----
MinInterval == 2      \* HotkeyDebouncer(0.5)

\* A timestamp this old is accepted by every ok() call in flight: older
\* timestamps need not be told apart.
Horizon == MinInterval + MaxStall

Threads == 1..MaxThreads
Listeners == 1..MaxListeners

\* Clipboard contents the user may have before a capture, and selections of
\* the foreground application.
InitClips == {<<"h">>}
Selections == {<<>>, <<" ">>, <<" ", "w">>}

VARIABLES
    clipboard,    \* the OS clipboard (pyperclip.paste / pyperclip.copy)
    selection,    \* the text selected in the foreground application
    pendingCopy,  \* the application received Cmd+C and has not yet copied
    cmdHeld,      \* the injected Cmd modifier is down
    _last,        \* HotkeyDebouncer._last, relative to the present
    debLock,      \* holder of HotkeyDebouncer._lock (0: free)
    accepted,     \* timestamps of the ok() calls that returned True, relative
                  \* to the present, as far back as Horizon
    _proc,        \* TextSpeaker._proc: "None" or "Popen"
    spLock,       \* holder of TextSpeaker._lock (0: free)
    child,        \* the `say` process _proc refers to: its state and the text
                  \* it was started for
    terminating,  \* number of processes sent SIGTERM that have not ended yet
    orphans,      \* number of running processes that no handle refers to and
                  \* that were never sent SIGTERM
    _listener,    \* HotkeyService._listener (0: None)
    lstate,       \* state of each listener thread
    enabled,      \* Read4MeMenuApp.enabled
    lastGate,     \* outcome of the last HotkeyService.start()/stop() call
    pc,           \* position of each listener thread in its callback
    hk,           \* the hotkey a listener thread is handling
    exc,          \* the call whose exception left the callback
    now,          \* local `now` of HotkeyDebouncer.ok, relative to the present
    prev_clip,    \* local `prev_clip` of copy_selection_to_clipboard
    text,         \* local `text` of the capture, _speak_selection and speak
    clip0,        \* the clipboard when the capture cycle began
    found,        \* what _stop_locked of stop() saw behind the handle
    failed        \* a clipboard call of the capture cycle in progress failed

env == <<clipboard, selection, pendingCopy, cmdHeld>>
deb == <<_last, debLock, accepted>>
spk == <<_proc, spLock, child, terminating, orphans>>
gate == <<_listener, lstate, enabled, lastGate>>
locals == <<hk, exc, now, prev_clip, text, clip0, found, failed>>
vars == <<env, deb, spk, gate, pc, locals>>

\* ---- str.strip() ----
IsSpace(c) == c = " "

RECURSIVE LStrip(_)
LStrip(s) == IF s = <<>> THEN s
             ELSE IF IsSpace(Head(s)) THEN LStrip(Tail(s)) ELSE s

RECURSIVE RStrip(_)
RStrip(s) == IF s = <<>> THEN s
             ELSE IF IsSpace(s[Len(s)]) THEN RStrip(SubSeq(s, 1, Len(s) - 1)) ELSE s

Strip(s) == RStrip(LStrip(s))

\* `not text.strip()`
Blank(s) == Strip(s) = <<>>

\* No process behind the handle.
NoChild == [st |-> "none", text |-> <<>>]

\* Number of `say` processes alive.
Alive == (IF child.st = "running" THEN 1 ELSE 0) + terminating + orphans

\* ---- the state after Read4MeMenuApp.__init__ ----
Init ==
    /\ clipboard \in InitClips
    /\ selection \in Selections
    /\ pendingCopy = FALSE
    /\ cmdHeld = FALSE
    /\ _last = -Horizon
    /\ debLock = 0
    /\ accepted = {}
    /\ _proc = "None"
    /\ spLock = 0
    /\ child = NoChild
    /\ terminating = 0
    /\ orphans = 0
    /\ _listener = 1
    /\ lstate = [l \in Threads |-> IF l = 1 THEN "running" ELSE "none"]
    /\ enabled = TRUE
    /\ lastGate = "start_new"
    /\ pc = [t \in Threads |-> "idle"]
    /\ hk = [t \in Threads |-> "none"]
    /\ exc = [t \in Threads |-> "none"]
    /\ now = [t \in Threads |-> 0]
    /\ prev_clip = [t \in Threads |-> <<>>]
    /\ text = [t \in Threads |-> <<>>]
    /\ clip0 = [t \in Threads |-> <<>>]
    /\ found = [t \in Threads |-> ""]
    /\ failed = [t \in Threads |-> FALSE]

\* ---- the environment ----

Max(a, b) == IF a >= b THEN a ELSE b

\* The positions at which a thread holds a sampled `now`.
OkPcs == {"ok_lock", "ok_body"}

\* Time passes by one tick.
Tick ==
    /\ \A t \in Threads : pc[t] \in OkPcs => now[t] > -MaxStall
    /\ _last' = Max(_last - 1, -Horizon)
    /\ now' = [t \in Threads |-> IF pc[t] \in OkPcs THEN now[t] - 1 ELSE now[t]]
    /\ accepted' = {a - 1 : a \in accepted} \cap (-Horizon..0)
    /\ UNCHANGED <<env, debLock, spk, gate, pc, hk, exc, prev_clip, text, clip0, found, failed>>

\* The foreground application handles the Cmd+C it received: it puts its
\* selection on the clipboard (nothing selected: the clipboard is left alone).
AppCopy ==
    /\ pendingCopy
    /\ pendingCopy' = FALSE
    /\ clipboard' = IF selection = <<>> THEN clipboard ELSE selection
    /\ UNCHANGED <<selection, cmdHeld, deb, spk, gate, pc, locals>>

\* The processes that may end: the one behind the handle, one that was sent
\* SIGTERM, one that nothing refers to.
ProcKinds == {"child", "terminating", "orphan"}

\* A `say` process ends: synthesis is complete, or SIGTERM took effect.
ProcExit(k) ==
    /\ CASE k = "child" -> child.st = "running"
         [] k = "terminating" -> terminating > 0
         [] OTHER -> orphans > 0
    /\ child' = IF k = "child" THEN [child EXCEPT !.st = "exited"] ELSE child
    /\ terminating' = IF k = "terminating" THEN terminating - 1 ELSE terminating
    /\ orphans' = IF k = "orphan" THEN orphans - 1 ELSE orphans
    /\ UNCHANGED <<env, deb, _proc, spLock, gate, pc, locals>>

\* ---- thread-local bookkeeping ----

\* The values a callback's locals have outside the callback.
ResetLocals(t) ==
    /\ hk' = [hk EXCEPT ![t] = "none"]
    /\ exc' = [exc EXCEPT ![t] = "none"]
    /\ now' = [now EXCEPT ![t] = 0]
    /\ prev_clip' = [prev_clip EXCEPT ![t] = <<>>]
    /\ text' = [text EXCEPT ![t] = <<>>]
    /\ clip0' = [clip0 EXCEPT ![t] = <<>>]
    /\ found' = [found EXCEPT ![t] = ""]
    /\ failed' = [failed EXCEPT ![t] = FALSE]

\* Thread t is outside any callback, its locals cleared.
Return(t) ==
    /\ pc' = [pc EXCEPT ![t] = "idle"]
    /\ ResetLocals(t)

\* The callback of thread t returns to the listener's event loop; the thread
\* of a listener that was stopped meanwhile ends.
Finish(t) ==
    /\ Return(t)
    /\ lstate' = [lstate EXCEPT ![t] = IF @ = "stopped" THEN "none" ELSE @]
    /\ UNCHANGED <<_listener, enabled, lastGate>>

\* The key events of the copy chord, in the order of the calls that post them.
KeyCalls == {"press_cmd", "press_c", "release_c", "release_cmd"}

\* An exception of call `what` leaves the callback of thread t: pynput logs
\* it and stops that listener, whose thread ends; HotkeyService keeps its
\* handle.  Of a thread that ended, only one that HotkeyService still refers
\* to (or that is no listener) is kept, with the call that raised.
Raise(t, what) ==
    IF lstate[t] = "stopped"
    THEN /\ Return(t)
         /\ lstate' = [lstate EXCEPT ![t] = "none"]
         /\ UNCHANGED <<_listener, enabled, lastGate>>
    ELSE /\ pc' = [pc EXCEPT ![t] = "raised"]
         /\ exc' = [exc EXCEPT ![t] = what]
         /\ lstate' = [lstate EXCEPT ![t] = IF @ = "running" THEN "crashed" ELSE @]
         /\ now' = [now EXCEPT ![t] = 0]
         /\ prev_clip' = [prev_clip EXCEPT ![t] = <<>>]
         /\ text' = [text EXCEPT ![t] = <<>>]
         /\ clip0' = [clip0 EXCEPT ![t] = IF what \in KeyCalls THEN clip0[t] ELSE <<>>]
         /\ failed' = [failed EXCEPT ![t] = FALSE]
         /\ UNCHANGED <<hk, found, _listener, enabled, lastGate>>

\* Thread t moves to `loc`.
Goto(t, loc) == pc' = [pc EXCEPT ![t] = loc]

\* A listener slot without a thread.
Free(l) == lstate[l] = "none"

\* ---- HotkeyService ----

\* A table that sends both chords through the debouncer.
HotkeyTable_debounced(chord) == "ok_lock"

\* GlobalHotKeys({'<cmd>+<shift>+s': _wrapped_speak, '<cmd>+<shift>+x': _on_stop}):
\* where the callback of a chord begins.
HotkeyTable(chord) == IF chord = "s" THEN "ok_lock" ELSE "st_lock"

\* start() without its `if self._listener is not None: return`.
HotkeyService_start_unguarded ==
    \E l \in Listeners :
        /\ Free(l)
        /\ \A k \in Listeners : Free(k) => l <= k
        /\ _listener' = l
        /\ lstate' = [lstate EXCEPT ![l] = "running"]
        /\ Return(l)
        /\ lastGate' = IF _listener # 0 THEN "start_noop" ELSE "start_new"

\* HotkeyService.start()
HotkeyService_start ==
    IF _listener # 0
    THEN /\ lastGate' = "start_noop"
         /\ UNCHANGED <<_listener, lstate, pc, locals>>
    ELSE \E l \in Listeners :
            /\ Free(l)
            /\ \A k \in Listeners : Free(k) => l <= k
            /\ _listener' = l
            /\ lstate' = [lstate EXCEPT ![l] = "running"]
            /\ Return(l)
            /\ lastGate' = "start_new"

\* HotkeyService.stop(): the listener is told to stop and the handle is
\* dropped; its thread ends at once unless it is inside a callback, which it
\* finishes first.
HotkeyService_stop ==
    IF _listener # 0
    THEN /\ IF pc[_listener] \in {"idle", "raised"}
            THEN /\ lstate' = [lstate EXCEPT ![_listener] = "none"]
                 /\ Return(_listener)
            ELSE /\ lstate' = [lstate EXCEPT ![_listener] = "stopped"]
                 /\ UNCHANGED <<pc, locals>>
         /\ _listener' = 0
         /\ lastGate' = "stop_live"
    ELSE /\ lastGate' = "stop_noop"
         /\ UNCHANGED <<_listener, lstate, pc, locals>>

\* _toggle_hotkeys that tests the flag before flipping it.
Toggle_stale ==
    /\ enabled' = ~enabled
    /\ IF enabled THEN HotkeyService_start ELSE HotkeyService_stop
    /\ UNCHANGED <<env, deb, spk>>

\* Read4MeMenuApp._toggle_hotkeys, on the UI thread.
Toggle ==
    /\ enabled' = ~enabled
    /\ IF ~enabled THEN HotkeyService_start ELSE HotkeyService_stop
    /\ UNCHANGED <<env, deb, spk>>

\* HotkeyService.start() called directly.
GateStart ==
    /\ HotkeyService_start
    /\ UNCHANGED <<env, deb, spk, enabled>>

\* HotkeyService.stop() called directly.
GateStop ==
    /\ HotkeyService_stop
    /\ UNCHANGED <<env, deb, spk, enabled>>

\* Number of threads inside a callback.
Busy == Cardinality({t \in Threads : pc[t] \notin {"idle", "raised"}})

\* A running listener that is not inside a callback sees a chord and calls
\* the callback registered for it; _wrapped_speak calls ok(), which begins
\* with now = time.time().
Event(t, chord) ==
    /\ lstate[t] = "running"
    /\ pc[t] = "idle"
    /\ hk' = [hk EXCEPT ![t] = chord]
    /\ Goto(t, HotkeyTable(chord))
    /\ now' = [now EXCEPT ![t] = 0]
    /\ UNCHANGED <<env, deb, spk, gate, exc, prev_clip, text, clip0, found, failed>>

\* An event, while fewer than MaxBusy callbacks are running.
Deliver(t, chord) ==
    /\ Busy < MaxBusy
    /\ Event(t, chord)

\* ---- HotkeyDebouncer.ok and HotkeyService._wrapped_speak ----

\* with self._lock:
OkLock(t) ==
    /\ pc[t] = "ok_lock"
    /\ debLock = 0
    /\ debLock' = t
    /\ Goto(t, "ok_body")
    /\ UNCHANGED <<env, _last, accepted, spk, gate, locals>>

\* ok() that also rejects a call exactly min_interval after the last one.
DebounceOk_strict(n, l) == n - l > MinInterval

\* The value ok() returns for timestamp n and last-accepted time l.
DebounceOk(n, l) == ~(n - l < MinInterval)

\* ok() that never records the accepted time.
DebounceLast_stale(n, l) == l

\* The value ok() leaves in _last.
DebounceLast(n, l) == IF DebounceOk(n, l) THEN n ELSE l

\* _wrapped_speak that ignores what ok() returned.
WrappedSpeak_always(r) == "cap_paste0"

\* _wrapped_speak: where the callback continues after ok() returned r.
WrappedSpeak(r) == IF r THEN "cap_paste0" ELSE "idle"

\* An ok() that calls on_speak inside its `with self._lock:` block.
OkUnlock_nested(t, r) == IF r THEN t ELSE 0

\* The holder of the debouncer's lock when thread t leaves the
\* `with self._lock:` block of ok() with result r.
OkUnlock(t, r) == 0

\* The locked body of ok(), its return, and the branch of _wrapped_speak.
OkBody(t) ==
    /\ pc[t] = "ok_body"
    /\ debLock = t
    /\ _last' = DebounceLast(now[t], _last)
    /\ accepted' = IF DebounceOk(now[t], _last) THEN accepted \cup {now[t]} ELSE accepted
    /\ debLock' = OkUnlock(t, DebounceOk(now[t], _last))
    /\ IF WrappedSpeak(DebounceOk(now[t], _last)) = "idle"
       THEN Finish(t)
       ELSE /\ Goto(t, WrappedSpeak(DebounceOk(now[t], _last)))
            /\ now' = [now EXCEPT ![t] = 0]
            /\ UNCHANGED <<gate, hk, exc, prev_clip, text, clip0, found, failed>>
    /\ UNCHANGED <<env, spk>>

\* ---- SelectionReader.copy_selection_to_clipboard ----

\* pyperclip.paste() into a local; a PyperclipException gives "".
Paste(ok) == IF ok THEN clipboard ELSE <<>>

\* prev_clip = pyperclip.paste()
CapPaste0(t) ==
    /\ pc[t] = "cap_paste0"
    /\ \E ok \in BOOLEAN :
         /\ prev_clip' = [prev_clip EXCEPT ![t] = Paste(ok)]
         /\ failed' = [failed EXCEPT ![t] = ~ok]
    /\ clip0' = [clip0 EXCEPT ![t] = clipboard]
    /\ Goto(t, "cap_clear")
    /\ UNCHANGED <<env, deb, spk, gate, hk, exc, now, text, found>>

\* pyperclip.copy(""); time.sleep(0.05) begins.
CapClear(t) ==
    /\ pc[t] = "cap_clear"
    /\ \E ok \in BOOLEAN :
         /\ clipboard' = IF ok THEN <<>> ELSE clipboard
         /\ failed' = [failed EXCEPT ![t] = @ \/ ~ok]
    /\ Goto(t, "cap_keys")
    /\ UNCHANGED <<selection, pendingCopy, cmdHeld, deb, spk, gate,
                   hk, exc, now, prev_clip, text, clip0, found>>

\* The call of the chord that raises, if any.
ChordFailures == {"none"} \cup KeyCalls

\* A bare press/release pair: the release is skipped when a call between
\* the two fails.
PressedExit_bare(f, held) ==
    IF f = "press_cmd" THEN held
    ELSE IF f = "none" THEN FALSE
    ELSE TRUE

\* The modifier after the `with self._pressed(Key.cmd)` block in which call
\* f failed: held if it was held and the press failed, held if its release
\* failed, and otherwise released by the finally clause.
PressedExit(f, held) ==
    IF f = "press_cmd" THEN held
    ELSE IF f = "release_cmd" THEN TRUE
    ELSE FALSE

\* Whether the foreground application saw Cmd+C.
ChordSeen(f) == f \notin {"press_cmd", "press_c"}

\* The sleep ends; with self._pressed(Key.cmd): kbd.press('c');
\* kbd.release('c'); time.sleep(copy_delay_sec) begins.
CapKeys(t) ==
    /\ pc[t] = "cap_keys"
    /\ \E f \in ChordFailures :
         /\ pendingCopy' = IF ChordSeen(f) THEN TRUE ELSE pendingCopy
         /\ cmdHeld' = PressedExit(f, cmdHeld)
         /\ IF f = "none"
            THEN /\ Goto(t, "cap_read1")
                 /\ UNCHANGED <<gate, hk, exc, now, prev_clip, text, clip0, found, failed>>
            ELSE Raise(t, f)
    /\ UNCHANGED <<clipboard, selection, deb, spk>>

\* Where the capture continues after its first read gave txt:
\* `if not text.strip():` the retry, else the restore.
Retry(txt) == IF Blank(txt) THEN "cap_read2" ELSE "cap_restore"

\* A capture that reads again for as long as the text is blank.
AfterRetry_poll(txt) == IF Blank(txt) THEN "cap_read2" ELSE "cap_restore"

\* Where the capture continues after the retry's read gave txt.
AfterRetry(txt) == "cap_restore"

\* The sleep ends; text = pyperclip.paste(); a blank text starts the
\* retry's time.sleep(0.20).
CapRead1(t) ==
    /\ pc[t] = "cap_read1"
    /\ \E ok \in BOOLEAN :
         /\ text' = [text EXCEPT ![t] = Paste(ok)]
         /\ failed' = [failed EXCEPT ![t] = @ \/ ~ok]
         /\ Goto(t, Retry(Paste(ok)))
    /\ UNCHANGED <<env, deb, spk, gate, hk, exc, now, prev_clip, clip0, found>>

\* The retry's sleep ends; text = pyperclip.paste() once more.
CapRead2(t) ==
    /\ pc[t] = "cap_read2"
    /\ \E ok \in BOOLEAN :
         /\ text' = [text EXCEPT ![t] = Paste(ok)]
         /\ failed' = [failed EXCEPT ![t] = @ \/ ~ok]
         /\ Goto(t, AfterRetry(Paste(ok)))
    /\ UNCHANGED <<env, deb, spk, gate, hk, exc, now, prev_clip, clip0, found>>

\* A capture that returns without writing prev_clip back.
Restore_skipped(ok, prev) == clipboard

\* The clipboard after pyperclip.copy(prev) whose success is ok.
Restore(ok, prev) == IF ok THEN prev ELSE clipboard

\* pyperclip.copy(prev_clip); return text or "".
CapRestore(t) ==
    /\ pc[t] = "cap_restore"
    /\ \E ok \in BOOLEAN :
         /\ clipboard' = Restore(ok, prev_clip[t])
         /\ failed' = [failed EXCEPT ![t] = @ \/ ~ok]
    /\ prev_clip' = [prev_clip EXCEPT ![t] = <<>>]
    /\ Goto(t, "ss_check")
    /\ UNCHANGED <<selection, pendingCopy, cmdHeld, deb, spk, gate,
                   hk, exc, now, text, clip0, found>>

\* ---- Read4MeMenuApp._speak_selection ----

\* _speak_selection that tests `if not text:`, without the strip.
SpeakSelection_nostrip(txt) == IF txt = <<>> THEN "idle" ELSE "sp_strip"

\* _speak_selection after the capture returned txt: notify and return, or
\* call self.speaker.speak(text).
SpeakSelection(txt) == IF Blank(txt) THEN "idle" ELSE "sp_strip"

SsCheck(t) ==
    /\ pc[t] = "ss_check"
    /\ IF SpeakSelection(text[t]) = "idle"
       THEN Finish(t)
       ELSE /\ Goto(t, SpeakSelection(text[t]))
            /\ UNCHANGED <<gate, locals>>
    /\ UNCHANGED <<env, deb, spk>>

\* ---- TextSpeaker ----

\* Python's None as an argument of speak.
None == "None"

\* (text or "")
OrEmpty(txt) == IF txt = None THEN <<>> ELSE txt

\* speak without its `if not text: return`.
SpeakGuard_absent(txt) == "sp_lock"

\* speak: where it continues with the stripped text txt: no text, return.
SpeakGuard(txt) == IF txt = <<>> THEN "idle" ELSE "sp_lock"

\* speak: text = (text or "").strip(); if not text: return
SpStrip(t) ==
    /\ pc[t] = "sp_strip"
    /\ IF SpeakGuard(Strip(OrEmpty(text[t]))) = "idle"
       THEN Finish(t)
       ELSE /\ Goto(t, SpeakGuard(Strip(OrEmpty(text[t]))))
            /\ text' = [text EXCEPT ![t] = Strip(OrEmpty(text[t]))]
            /\ UNCHANGED <<gate, hk, exc, now, prev_clip, clip0, found, failed>>
    /\ UNCHANGED <<env, deb, spk>>

\* speak: with self._lock:
SpLock(t) ==
    /\ pc[t] = "sp_lock"
    /\ spLock = 0
    /\ spLock' = t
    /\ Goto(t, "sp_body")
    /\ UNCHANGED <<env, deb, _proc, child, terminating, orphans, gate, locals>>

\* Outcomes of self._proc.terminate() on a process whose poll() was None:
\* SIGTERM is sent, or the process has ended meanwhile and the call raises,
\* which `except Exception: pass` swallows.
TermOutcomes == {"ok", "gone"}

\* _stop_locked that calls self._proc.poll() without testing self._proc.
StopLocked_unguarded(h, c, term, sig) ==
    [handle |-> "None",
     terminating |-> IF h # "None" /\ c.st = "running" /\ sig = "ok" THEN term + 1 ELSE term,
     raised |-> h = "None"]

\* _stop_locked without its `self._proc = None`.
StopLocked_held(h, c, term, sig) ==
    [handle |-> h,
     terminating |-> IF h # "None" /\ c.st = "running" /\ sig = "ok" THEN term + 1 ELSE term,
     raised |-> FALSE]

\* _stop_locked with its test inverted: only a handle on a process that
\* has ended is dropped.
StopLocked_inverted(h, c, term, sig) ==
    [handle |-> IF h # "None" /\ c.st = "running" THEN h ELSE "None",
     terminating |-> term,
     raised |-> FALSE]

\* _stop_locked that leaves the handle and the process alone.
StopLocked_skipped(h, c, term, sig) ==
    [handle |-> h, terminating |-> term, raised |-> FALSE]

\* _stop_locked with handle h on process c, terminate() ending as sig: a
\* process that has not ended (poll() is None) is sent SIGTERM, and nothing
\* waits for it; the handle is dropped whatever happened.  The result: the
\* handle, the number of processes sent SIGTERM and still alive, and whether
\* the call raised.
StopLocked(h, c, term, sig) ==
    [handle |-> "None",
     terminating |-> IF h # "None" /\ c.st = "running" /\ sig = "ok" THEN term + 1 ELSE term,
     raised |-> FALSE]

\* Outcomes of Popen, stdin.write and stdin.close.
SpawnOutcomes == {"ok", "popen_fails", "write_fails"}

\* speak: self._stop_locked(); self._proc = subprocess.Popen(cmd, stdin=PIPE);
\* stdin.write(text); stdin.close(); the lock is released.  A running
\* process that the handle still refers to when Popen's result is assigned
\* is left with nothing referring to it.
SpBody(t) ==
    /\ pc[t] = "sp_body"
    /\ spLock = t
    /\ \E sig \in TermOutcomes :
         /\ StopLocked(_proc, child, terminating, sig).terminating + orphans < MaxProcs
         /\ terminating' = StopLocked(_proc, child, terminating, sig).terminating
         /\ IF StopLocked(_proc, child, terminating, sig).raised
            THEN /\ Raise(t, "stop")
                 /\ UNCHANGED <<_proc, child, orphans>>
            ELSE \E out \in SpawnOutcomes :
                 IF out = "popen_fails"
                 THEN /\ _proc' = StopLocked(_proc, child, terminating, sig).handle
                      /\ child' = IF _proc' = "None" THEN NoChild ELSE child
                      /\ orphans' = orphans
                      /\ Raise(t, "popen")
                 ELSE /\ _proc' = "Popen"
                      /\ child' = [st |-> "running", text |-> text[t]]
                      /\ orphans' = IF StopLocked(_proc, child, terminating, sig).handle # "None"
                                       /\ child.st = "running"
                                    THEN orphans + 1 ELSE orphans
                      /\ IF out = "ok"
                         THEN Finish(t)
                         ELSE Raise(t, "write")
    /\ spLock' = 0
    /\ UNCHANGED <<env, deb>>

\* stop: with self._lock:
StLock(t) ==
    /\ pc[t] = "st_lock"
    /\ spLock = 0
    /\ spLock' = t
    /\ Goto(t, "st_body")
    /\ UNCHANGED <<env, deb, _proc, child, terminating, orphans, gate, locals>>

\* stop: self._stop_locked(); the lock is released.
StBody(t) ==
    /\ pc[t] = "st_body"
    /\ spLock = t
    /\ \E sig \in TermOutcomes :
         /\ terminating' = StopLocked(_proc, child, terminating, sig).terminating
         /\ IF StopLocked(_proc, child, terminating, sig).raised
            THEN /\ Raise(t, "stop")
                 /\ UNCHANGED <<_proc, child>>
            ELSE /\ _proc' = StopLocked(_proc, child, terminating, sig).handle
                 /\ child' = IF _proc' = "None" THEN NoChild ELSE child
                 /\ found' = [found EXCEPT ![t] = IF _proc = "None" THEN "None" ELSE child.st]
                 /\ Goto(t, "st_ret")
                 /\ UNCHANGED <<gate, hk, exc, now, prev_clip, text, clip0, failed>>
    /\ spLock' = 0
    /\ UNCHANGED <<env, deb, orphans>>

\* stop() returns, and so does the callback.
StRet(t) ==
    /\ pc[t] = "st_ret"
    /\ Finish(t)
    /\ UNCHANGED <<env, deb, spk>>

\* ---- the program ----

Chords == {"s", "x"}

\* A step of a listener thread inside a callback.
Callback(t) ==
    \/ OkLock(t) \/ OkBody(t)
    \/ CapPaste0(t) \/ CapClear(t) \/ CapKeys(t)
    \/ CapRead1(t) \/ CapRead2(t) \/ CapRestore(t)
    \/ SsCheck(t) \/ SpStrip(t) \/ SpLock(t) \/ SpBody(t)
    \/ StLock(t) \/ StBody(t) \/ StRet(t)

\* The menu-bar application.
Next ==
    \/ Tick
    \/ AppCopy
    \/ \E k \in ProcKinds : ProcExit(k)
    \/ Toggle
    \/ \E t \in Listeners, chord \in Chords : Deliver(t, chord)
    \/ \E t \in Threads : Callback(t)

Spec == Init /\ [][Next]_vars

\* ---- TextSpeaker called from several threads ----

\* Arguments of speak.
Texts == {None, <<>>, <<" ">>, <<" ", "w">>, <<"v">>}

\* A thread calls speak(txt).
CallSpeak(t, txt) ==
    /\ pc[t] = "idle"
    /\ hk' = [hk EXCEPT ![t] = "speak"]
    /\ text' = [text EXCEPT ![t] = txt]
    /\ Goto(t, "sp_strip")
    /\ UNCHANGED <<env, deb, spk, gate, exc, now, prev_clip, clip0, found, failed>>

\* A thread calls stop().
CallStop(t) ==
    /\ pc[t] = "idle"
    /\ hk' = [hk EXCEPT ![t] = "stop"]
    /\ Goto(t, "st_lock")
    /\ UNCHANGED <<env, deb, spk, gate, exc, now, prev_clip, text, clip0, found, failed>>

NextSpeaker ==
    \/ \E t \in Threads, txt \in Texts : CallSpeak(t, txt)
    \/ \E t \in Threads : CallStop(t)
    \/ \E t \in Threads : SpStrip(t) \/ SpLock(t) \/ SpBody(t) \/ StLock(t) \/ StBody(t) \/ StRet(t)
    \/ \E k \in ProcKinds : ProcExit(k)

SpecSpeaker == Init /\ [][NextSpeaker]_vars

\* ---- HotkeyService._wrapped_speak called from several threads ----

\* A thread calls _wrapped_speak, which calls ok(): now = time.time().
CallWrappedSpeak(t) ==
    /\ pc[t] = "idle"
    /\ hk' = [hk EXCEPT ![t] = "s"]
    /\ now' = [now EXCEPT ![t] = 0]
    /\ Goto(t, "ok_lock")
    /\ UNCHANGED <<env, deb, spk, gate, exc, prev_clip, text, clip0, found, failed>>

\* An on_speak callback that only returns.
OnSpeakStub(t) ==
    /\ pc[t] = "cap_paste0"
    /\ Finish(t)
    /\ UNCHANGED <<env, deb, spk>>

NextDebouncer ==
    \/ Tick
    \/ \E t \in Threads : CallWrappedSpeak(t)
    \/ \E t \in Threads : OkLock(t) \/ OkBody(t) \/ OnSpeakStub(t)

SpecDebouncer == Init /\ [][NextDebouncer]_vars

\* ---- SelectionReader.copy_selection_to_clipboard called directly ----

\* A thread calls copy_selection_to_clipboard.
CallCapture(t) ==
    /\ pc[t] = "idle"
    /\ hk' = [hk EXCEPT ![t] = "capture"]
    /\ Goto(t, "cap_paste0")
    /\ UNCHANGED <<env, deb, spk, gate, exc, now, prev_clip, text, clip0, found, failed>>

\* A step of thread t inside copy_selection_to_clipboard.
CaptureStep(t) ==
    \/ CapPaste0(t) \/ CapClear(t) \/ CapKeys(t)
    \/ CapRead1(t) \/ CapRead2(t) \/ CapRestore(t)

\* The caller of copy_selection_to_clipboard has the returned text.
CaptureReturns(t) ==
    /\ pc[t] = "ss_check"
    /\ Finish(t)
    /\ UNCHANGED <<env, deb, spk>>

NextCapture ==
    \/ AppCopy
    \/ \E t \in Threads : CallCapture(t) \/ CaptureStep(t) \/ CaptureReturns(t)

\* Every sleep ends and every OS call returns or raises: a thread inside
\* the capture takes its next step.
SpecCapture ==
    Init /\ [][NextCapture]_vars /\ \A t \in Threads : WF_vars(CaptureStep(t))

\* ---- the speak hotkey and the menu toggle, speech left out ----

\* _speak_selection returns after the capture, whatever the text.
SpeakStub(t) ==
    /\ pc[t] = "ss_check"
    /\ Finish(t)
    /\ UNCHANGED <<env, deb, spk>>

\* The listeners deliver the speak chord whenever they are idle, also while
\* the callback of a stopped listener is still running.
NextCycles ==
    \/ Tick
    \/ AppCopy
    \/ Toggle
    \/ \E t \in Listeners : Event(t, "s")
    \/ \E t \in Threads : OkLock(t) \/ OkBody(t) \/ CaptureStep(t) \/ SpeakStub(t)

SpecCycles == Init /\ [][NextCycles]_vars

\* ---- HotkeyService driven directly ----

\* start(), stop() and the menu toggle in any order; the listeners deliver
\* both chords to a HotkeyService whose on_speak only returns.
NextGate ==
    \/ GateStart
    \/ GateStop
    \/ Toggle
    \/ Tick
    \/ \E t \in Listeners, chord \in Chords : Deliver(t, chord)
    \/ \E t \in Threads : OkLock(t) \/ OkBody(t) \/ OnSpeakStub(t)
    \/ \E t \in Threads : StLock(t) \/ StBody(t) \/ StRet(t)

SpecGate == Init /\ [][NextGate]_vars

\* ---- the properties ----

\* Positions inside copy_selection_to_clipboard and _speak_selection.
CapPcs == {"cap_paste0", "cap_clear", "cap_keys", "cap_read1", "cap_read2",
           "cap_restore", "ss_check"}

\* Positions inside TextSpeaker.speak.
SpeakPcs == {"sp_strip", "sp_lock", "sp_body"}

\* The listeners whose thread is in its event loop or in a callback of it.
Live == {l \in Threads : lstate[l] = "running"}

\* C1. Clipboard invariance: whenever a capture cycle has completed, by
\* returning to _speak_selection or by an exception of the key injection,
\* the clipboard holds what it held when the cycle began.
ClipboardInvariance ==
    \A t \in Threads :
        (pc[t] = "ss_check" \/ (pc[t] = "raised" /\ exc[t] \in KeyCalls))
            => clipboard = clip0[t]

\* C2. Single-flight speech: at most one `say` process started by the
\* TextSpeaker is alive at any time.
SingleFlight == Alive <= 1

\* C3. Debounce bound: any two ok() calls that returned True have timestamps
\* at least min_interval apart.
DebounceBound ==
    \A a \in accepted, b \in accepted : a # b => (a - b >= MinInterval \/ b - a >= MinInterval)

\* Two calls were accepted while another thread is inside ok().
DebounceBound_Witness ==
    /\ Cardinality(accepted) >= 2
    /\ \E t \in Threads : pc[t] \in OkPcs

\* C4. Empty-selection no-op: speak is entered only with a text that is not
\* blank, and no process is started for a blank text.
EmptySelectionNoOp ==
    /\ \A t \in Threads : pc[t] \in SpeakPcs => ~Blank(text[t])
    /\ child.st # "none" => ~Blank(child.text)

\* A capture returned a whitespace-only text to _speak_selection.
EmptySelectionNoOp_Witness ==
    \E t \in Threads : pc[t] = "ss_check" /\ text[t] = <<" ">>

\* C5. Idempotent stop: stop() on an empty handle raises nothing, sends no
\* SIGTERM and leaves the handle and the processes as they were.
IdempotentStop ==
    [][\A t \in Threads :
          (pc[t] = "st_body" /\ _proc = "None" /\ pc'[t] # pc[t])
              => /\ pc'[t] = "st_ret"
                 /\ _proc' = "None"
                 /\ UNCHANGED <<child, terminating, orphans>>
                 /\ spLock' = 0]_vars

\* stop() has returned after finding an empty handle, twice over: a second
\* thread is in the same place.
IdempotentStop_Witness ==
    /\ _proc = "None"
    /\ \A t \in Threads : pc[t] = "st_ret" /\ found[t] = "None"

\* C6. Gate idempotence: start() on a started gate creates and starts no
\* listener and leaves exactly the one the gate holds; stop() on a stopped
\* gate changes nothing and leaves no listener running.
GateIdempotence ==
    [][/\ (GateStart /\ _listener # 0)
          => /\ UNCHANGED <<_listener, lstate>>
             /\ Live \subseteq {_listener}
       /\ (GateStop /\ _listener = 0)
          => /\ UNCHANGED <<_listener, lstate>>
             /\ Live = {}]_vars

\* start() was called on a gate whose listener is running.
GateIdempotence_Witness ==
    /\ lastGate = "start_noop"
    /\ Live = {_listener}

GateDisabledQuiet ==
    _listener = 0 => \A t \in Threads : pc[t] \notin CapPcs \cup SpeakPcs

\* C8, amended: a callback begins only on the listener the enabled gate
\* holds; a capture cycle begins only where ok() accepted a speak chord;
\* speak is entered only from _speak_selection; and a process is started
\* only by a thread inside speak.
SpeakGated ==
    [][\A t \in Threads :
          /\ (pc[t] = "idle" /\ pc'[t] # "idle")
                => lstate[t] = "running" /\ _listener = t /\ enabled
          /\ (pc[t] \notin CapPcs /\ pc'[t] \in CapPcs)
                => /\ pc[t] = "ok_body"
                   /\ hk[t] = "s"
                   /\ now[t] - _last >= MinInterval
          /\ (pc[t] \notin SpeakPcs /\ pc'[t] \in SpeakPcs) => pc[t] = "ss_check"
          /\ (child' # child /\ child'.st = "running")
                => \E u \in Threads : pc[u] = "sp_body"]_vars

\* A callback that began while the gate was enabled is about to start a
\* process while the gate is disabled.
SpeakGated_Witness ==
    /\ ~enabled
    /\ \E t \in Threads : pc[t] = "sp_body" /\ hk[t] = "s"

\* C9. Stop is never debounced: a delivered stop chord enters stop() at
\* once, and the stop path takes the speaker's lock, runs _stop_locked and
\* returns without reading or changing the debouncer.
StopNotDebounced ==
    [][\A t \in Threads :
          /\ (pc[t] = "idle" /\ hk'[t] = "x")
                => pc'[t] = "st_lock" /\ UNCHANGED deb
          /\ (hk[t] = "x" /\ pc'[t] # pc[t])
                => /\ UNCHANGED deb
                   /\ pc[t] = "st_lock" => pc'[t] = "st_body"
                   /\ pc[t] = "st_body" => pc'[t] = "st_ret" /\ _proc' = "None"]_vars

\* A stop chord terminated a running process while the debounce interval of
\* the last accepted speak chord had not passed.
StopNotDebounced_Witness ==
    \E t \in Threads :
        /\ hk[t] = "x"
        /\ pc[t] = "st_ret"
        /\ found[t] = "running"
        /\ 0 - _last < MinInterval

\* C10. Capture never fails: no exception of an OS call inside
\* copy_selection_to_clipboard leaves the hotkey callback.
CaptureNeverRaises ==
    \A t \in Threads : ~(pc[t] = "raised" /\ exc[t] \in KeyCalls)

OkIff ==
    [][\A t \in Threads :
          (pc[t] = "ok_body" /\ pc'[t] # "ok_body") =>
             IF now[t] - _last >= MinInterval
             THEN /\ pc'[t] = "cap_paste0"
                  /\ _last' = now[t]
                  /\ accepted' = accepted \cup {now[t]}
             ELSE /\ pc'[t] = "idle"
                  /\ _last' = _last
                  /\ accepted' = accepted]_vars

\* One thread's call was accepted at the present instant while another
\* thread, which sampled the clock a tick earlier, still waits for the lock.
OkIff_Witness ==
    \E t \in Threads, u \in Threads :
        /\ pc[t] = "cap_paste0"
        /\ _last = 0
        /\ pc[u] = "ok_lock"
        /\ now[u] < 0

\* C13. Supersede order: a speak call that holds the lock and starts its
\* process leaves the handle on that process; the process the handle
\* referred to, that of the call which held the lock before, has been sent
\* SIGTERM if poll() found it running and it had not ended by then, and is
\* only dropped if it had ended; no running process is left unreferenced.
Supersede ==
    [][\A t \in Threads :
          (pc[t] = "sp_body" /\ pc'[t] # "sp_body" /\ _proc' = "Popen") =>
             /\ child' = [st |-> "running", text |-> text[t]]
             /\ orphans' = orphans
             /\ child.st = "running" => terminating' \in {terminating, terminating + 1}
             /\ terminating' = terminating + 1 => child.st = "running"
             /\ child.st # "running" => terminating' = terminating
             /\ Alive' <= Alive + 1]_vars

\* The process of speak("v") is behind the handle and the process it
\* superseded, that of an earlier speak, has been sent SIGTERM, while the
\* other thread, in a further speak call, waits for the lock.
Supersede_Witness ==
    /\ child = [st |-> "running", text |-> <<"v">>]
    /\ terminating = 1
    /\ orphans = 0
    /\ \E u \in Threads : pc[u] = "sp_lock" /\ text[u] = <<"w">>

\* C14. Stop/start ordering: stop() takes the lock only when no speak
\* holds it; the process behind the handle at that moment, if poll() finds
\* it running, is sent SIGTERM unless it has ended by then; when stop()
\* returns the handle is empty and no process that is running and was never
\* sent SIGTERM remains.
StopAfterStart ==
    [][\A t \in Threads :
          /\ (pc[t] = "st_lock" /\ pc'[t] # "st_lock")
                => spLock = 0 /\ \A u \in Threads : pc[u] # "sp_body"
          /\ (pc[t] = "st_body" /\ pc'[t] # "st_body")
                => /\ pc'[t] = "st_ret"
                   /\ _proc' = "None"
                   /\ child' = NoChild
                   /\ orphans' = 0
                   /\ child.st = "running"
                         => \/ terminating' = terminating + 1 /\ Alive' = Alive
                            \/ terminating' = terminating /\ Alive' = Alive - 1
                   /\ child.st # "running" => terminating' = terminating]_vars

\* stop() has returned after sending SIGTERM to the process that a speak
\* call had started, and that process has not ended yet; the handle is
\* empty.
StopAfterStart_Witness ==
    \E t \in Threads :
        /\ pc[t] = "st_ret"
        /\ hk[t] = "stop"
        /\ found[t] = "running"
        /\ _proc = "None"
        /\ terminating = 1
        /\ Alive = 1

\* C15, as stated: no exit path of the key injection leaves the modifier
\* down.  The injection is one step, so the modifier is never seen down.
ModifierNeverLeftDown == ~cmdHeld

\* C15, amended: when the block `with self._pressed(Key.cmd)` is
\* left normally, or by an exception of kbd.press('c') or kbd.release('c'),
\* the modifier is up; a step of the block leaves the modifier down only
\* when the press of the modifier failed while it was down already, or when
\* the release call of the finally clause itself raised.
ModifierRelease ==
    [][\A t \in Threads :
          (pc[t] = "cap_keys" /\ pc'[t] # pc[t]) =>
             /\ pc'[t] = "cap_read1" => ~cmdHeld'
             /\ (pc'[t] = "raised" /\ exc'[t] \in {"press_c", "release_c"}) => ~cmdHeld'
             /\ (pc'[t] = "raised" /\ exc'[t] = "press_cmd") => cmdHeld' = cmdHeld
             /\ (lstate[t] = "running" /\ cmdHeld' /\ ~cmdHeld)
                   => pc'[t] = "raised" /\ exc'[t] = "release_cmd"]_vars

\* kbd.press('c') raised inside the block, after the modifier was pressed,
\* and the modifier is up.
ModifierRelease_Witness ==
    \E t \in Threads :
        /\ pc[t] = "raised"
        /\ exc[t] = "press_c"
        /\ ~cmdHeld

\* The positions of copy_selection_to_clipboard, in program order.
CapInner == {"cap_paste0", "cap_clear", "cap_keys", "cap_read1", "cap_read2", "cap_restore"}

\* C16. Bounded single retry: the first read happens once, after the key
\* injection; the second read happens exactly when the first gave a blank
\* text (a failed read gives ""), and only then; after the second read
\* comes the restore, whatever was read; the value returned is that of the
\* last read; and every capture cycle comes to its end.
SingleRetry ==
    /\ [][\A t \in Threads :
            /\ (pc'[t] = "cap_read1" /\ pc[t] # "cap_read1") => pc[t] = "cap_keys"
            /\ (pc'[t] = "cap_read2" /\ pc[t] # "cap_read2") => pc[t] = "cap_read1"
            /\ (pc[t] = "cap_read1" /\ text'[t] # text[t]) => pc'[t] # "cap_read1"
            /\ (pc[t] = "cap_read1" /\ pc'[t] # pc[t])
                  => /\ text'[t] \in {clipboard, <<>>}
                     /\ pc'[t] = IF Blank(text'[t]) THEN "cap_read2" ELSE "cap_restore"
            /\ (pc[t] = "cap_read2" /\ (pc'[t] # pc[t] \/ text'[t] # text[t]))
                  => /\ text'[t] \in {clipboard, <<>>}
                     /\ pc'[t] = "cap_restore"
            /\ (pc[t] = "cap_restore" /\ pc'[t] # pc[t])
                  => pc'[t] = "ss_check" /\ text'[t] = text[t]]_vars
    /\ \A t \in Threads : (pc[t] \in CapInner) ~> (pc[t] \notin CapInner)

\* A capture none of whose calls failed is in its retry: the first read
\* found the clipboard still empty, and the application has put the
\* selection there since, for the second read to find.
SingleRetry_Witness ==
    \E t \in Threads :
        /\ pc[t] = "cap_read2"
        /\ hk[t] = "capture"
        /\ ~failed[t]
        /\ text[t] = <<>>
        /\ ~Blank(selection)
        /\ clipboard = selection

\* C17. Locks never nest: the debouncer's lock is held exactly inside the
\* locked body of ok() and the speaker's lock exactly inside the locked
\* bodies of speak and stop; no thread holds both; a thread that waits for
\* a lock holds none; and the capture and speak run without the debouncer's
\* lock.  A lock's holder therefore never waits for a lock.
LocksNeverNest ==
    /\ \A t \in Threads : debLock = t <=> pc[t] = "ok_body"
    /\ \A t \in Threads : spLock = t <=> pc[t] \in {"sp_body", "st_body"}
    /\ \A t \in Threads : ~(debLock = t /\ spLock = t)
    /\ \A t \in Threads :
          pc[t] \in {"ok_lock", "sp_lock", "st_lock"} => debLock # t /\ spLock # t
    /\ \A t \in Threads : pc[t] \in CapPcs \cup SpeakPcs => debLock # t
    /\ debLock \in {0} \cup Threads
    /\ spLock \in {0} \cup Threads

\* A speak callback went through ok(), the capture and into speak: it holds
\* the speaker's lock and the debouncer's lock is free.
LocksNeverNest_Witness ==
    \E t \in Threads :
        /\ hk[t] = "s"
        /\ pc[t] = "sp_body"
        /\ spLock = t
        /\ debLock = 0

\* C18. speak() with a text that is None, empty or whitespace-only returns
\* without taking the lock and leaves the handle, the process behind it
\* and every other process as they were.
SpeakBlankNoOp ==
    [][\A t \in Threads :
          (pc[t] = "sp_strip" /\ Blank(OrEmpty(text[t])) /\ pc'[t] # pc[t])
              => /\ pc'[t] = "idle"
                 /\ UNCHANGED <<_proc, spLock, child, terminating, orphans>>]_vars

\* speak(" ") has been called while a process is speaking and while the
\* other thread, inside speak, holds the lock.
SpeakBlankNoOp_Witness ==
    \E t \in Threads, u \in Threads :
        /\ pc[t] = "sp_strip"
        /\ OrEmpty(text[t]) = <<" ">>
        /\ child.st = "running"
        /\ pc[u] = "sp_body"
        /\ spLock = u

\* C19. Capture cycles never overlap: at most one thread is inside
\* copy_selection_to_clipboard.
CyclesNeverOverlap ==
    Cardinality({t \in Threads : pc[t] \in CapInner}) <= 1

\* C20. No orphaned speech process: whenever the speaker's lock is free,
\* no process that is running and was never sent SIGTERM is without a
\* handle, and the handle is on a process exactly when it is not None: the
\* only such process is the one self._proc refers to.
NoOrphan ==
    spLock = 0 =>
        /\ orphans = 0
        /\ child.st = "running" => _proc = "Popen"
        /\ _proc = "None" <=> child = NoChild

\* The stdin write of a speak call failed after Popen had succeeded: the
\* exception has left speak, the lock is free, and the process that was
\* started is running behind the handle, a superseded one still ending.
NoOrphan_Witness ==
    /\ spLock = 0
    /\ \E t \in Threads : pc[t] = "raised" /\ exc[t] = "write"
    /\ _proc = "Popen"
    /\ child.st = "running"
    /\ terminating = 1

====
